---- MODULE Spec2Model ----
(***************************************************************************)
(* Model of courthouse/views/admin/contests.py: the admin handlers that    *)
(* add, edit and delete contests (add_contest, contests_del) and the       *)
(* roster helpers (users_from_emails, problems_from_slugs,                 *)
(* is_dup_contest_name), run against a Contest table.                      *)
(*                                                                         *)
(* Python values: an optional value (the result of request.form.get) is a  *)
(* sequence of length 0 (None) or 1 (the value).  A form is a record whose *)
(* domain is the set of submitted fields.  A form string that the code     *)
(* splits is a sequence of one-character strings.  A raised exception or   *)
(* abort() is the handler's outcome string.                                *)
(***************************************************************************)
EXTENDS Integers, Sequences, FiniteSets, TLC

VARIABLES db, nextId, session, req, res,
          wpc, wreq, wsess, wout,
          rin, rout

vars == <<db, nextId, session, req, res, wpc, wreq, wsess, wout, rin, rout>>

\* ---------------------------------------------------------------- bounds
\* Highest contest id the table hands out.
MaxCreates == 2
\* Longest identifier list given to the roster helpers.
MaxRosterLen == 3

\* ---------------------------------------------------------------- values
None == <<>>
Some(v) == <<v>>

\* request.form.get(key)
get(form, key) == IF key \in DOMAIN form THEN Some(form[key]) ELSE None

\* rows of model.User (by email) and model.Problem (by slug)
UserTable == {"u", "v"}
ProblemTable == {"p", "q"}

\* decimal text of the ids, as they arrive in the form and in the URL
DigitStr == <<"1", "2", "3", "4">>
IdStrs == {DigitStr[i] : i \in 1..MaxCreates}
\* the integer an id text is compared as by filter_by(id=...)
IdOf(s) == CHOOSE i \in 1..Len(DigitStr) : DigitStr[i] = s

\* ---------------------------------------------------------------- helpers outside this file
\* util.checkbox_result_to_bool: "on" is True, "off" and an unsent checkbox
\* are False, anything else is None.
checkbox_result_to_bool(r) ==
    IF r = Some("on") THEN Some(TRUE)
    ELSE IF r = Some("off") \/ r = None THEN Some(FALSE)
    ELSE None

DayNo == [d \in {"2024-03-01", "2024-03-02"} |->
             IF d = "2024-03-01" THEN 0 ELSE 1]
MinuteNo == [t \in {"09:00", "10:30", "12:00", "17:00", "18:15"} |->
             CASE t = "09:00" -> 540
               [] t = "10:30" -> 630
               [] t = "12:00" -> 720
               [] t = "17:00" -> 1020
               [] OTHER -> 1095]

\* model.strs_to_dt parses "<date>T<time>Z"; None when the text does not
\* parse (the Python raises), otherwise the minute count of the datetime.
strs_to_dt(d, t) ==
    IF d = None \/ t = None THEN None
    ELSE IF d[1] \notin DOMAIN DayNo \/ t[1] \notin DOMAIN MinuteNo THEN None
    ELSE Some(DayNo[d[1]] * 1440 + MinuteNo[t[1]])

\* str.split(): the maximal runs of non-blank characters, in order
RECURSIVE SplitFrom(_, _, _)
SplitFrom(s, i, cur) ==
    IF i > Len(s) THEN (IF cur = "" THEN <<>> ELSE <<cur>>)
    ELSE IF s[i] = " "
         THEN (IF cur = "" THEN SplitFrom(s, i + 1, "")
               ELSE <<cur>> \o SplitFrom(s, i + 1, ""))
         ELSE SplitFrom(s, i + 1, cur \o s[i])

split(s) == SplitFrom(s, 1, "")

\* ---------------------------------------------------------------- roster helpers
\* faulty variant: the helper keeps an identifier whether or not a row matches
RECURSIVE users_from_emails_keep(_)
users_from_emails_keep(emails) ==
    IF emails = <<>> THEN <<>>
    ELSE <<Head(emails)>> \o users_from_emails_keep(Tail(emails))

\* users_from_emails: one query per email, the row appended when found
RECURSIVE users_from_emails(_)
users_from_emails(emails) ==
    IF emails = <<>> THEN <<>>
    ELSE (IF Head(emails) \in UserTable THEN <<Head(emails)>> ELSE <<>>)
         \o users_from_emails(Tail(emails))

\* problems_from_slugs: one query per slug, the row appended when found
RECURSIVE problems_from_slugs(_)
problems_from_slugs(slugs) ==
    IF slugs = <<>> THEN <<>>
    ELSE (IF Head(slugs) \in ProblemTable THEN <<Head(slugs)>> ELSE <<>>)
         \o problems_from_slugs(Tail(slugs))

\* the elements of a list
Elems(s) == {s[i] : i \in 1..Len(s)}

\* ---------------------------------------------------------------- the Contest table and the session
\* db maps the id of every stored contest to its row.
NamesOf(tbl) == {tbl[i].name : i \in DOMAIN tbl}

EmptyTable == [i \in {} |-> 0]
EmptySession == [new |-> <<>>, dirty |-> EmptyTable, deleted |-> {}]

\* Contest.query.filter_by(id=contest_id): the ids of the matching rows
query_by_id(tbl, cid) == {i \in DOMAIN tbl : i = IdOf(cid)}

\* faulty variant: the name check never finds a row
is_dup_contest_name_never(tbl, name) == FALSE

\* is_dup_contest_name: some row carries the name
is_dup_contest_name(tbl, name) ==
    {i \in DOMAIN tbl : tbl[i].name = name} # {}

\* the table the session's pending changes produce
Flushed(tbl, nid, s) ==
    LET kept == (DOMAIN tbl) \ s.deleted
        newIds == {nid + k - 1 : k \in 1..Len(s.new)}
    IN [i \in kept \cup newIds |->
           IF i \in newIds THEN s.new[i - nid + 1]
           ELSE IF i \in DOMAIN s.dirty THEN s.dirty[i]
           ELSE tbl[i]]

\* faulty variant: the table accepts any names
unique_name_ok_off(tbl) == TRUE

\* the unique constraint on Contest.name
unique_name_ok(tbl) ==
    \A i, j \in DOMAIN tbl : tbl[i].name = tbl[j].name => i = j

\* db.session.commit(): all pending changes become durable, or none does
\* and IntegrityError is raised (ok = FALSE).  refs: the contest ids that
\* rows of other tables point at.
commit(tbl, nid, s, refs) ==
    LET t == Flushed(tbl, nid, s)
    IN IF unique_name_ok(t) /\ s.deleted \cap refs = {}
       THEN [ok |-> TRUE, db |-> t, nextId |-> nid + Len(s.new)]
       ELSE [ok |-> FALSE, db |-> tbl, nextId |-> nid]

\* the request ends: the request-scoped session is discarded
shutdown_session(s) == EmptySession

\* ---------------------------------------------------------------- add_contest
TimeFields == <<"activate_time", "start_time", "freeze_time", "end_time",
                "deactivate_time">>

\* the five strs_to_dt calls, in the order the code makes them
Timestamps(form) ==
    <<strs_to_dt(get(form, "activate_date"), get(form, "activate_time")),
      strs_to_dt(get(form, "start_date"), get(form, "start_time")),
      strs_to_dt(get(form, "freeze_date"), get(form, "freeze_time")),
      strs_to_dt(get(form, "end_date"), get(form, "end_time")),
      strs_to_dt(get(form, "deactivate_date"), get(form, "deactivate_time"))>>

\* index of the first strs_to_dt call that raises, 6 when none does
FirstBad(ts) ==
    IF \E j \in 1..5 : ts[j] = None
    THEN CHOOSE j \in 1..5 : ts[j] = None /\ \A k \in 1..(j - 1) : ts[k] # None
    ELSE 6

\* the contest after the timestamp assignments that precede call k
AssignTimes(c, ts, k) ==
    [f \in DOMAIN c |->
        IF \E j \in 1..(k - 1) : TimeFields[j] = f
        THEN ts[CHOOSE j \in 1..(k - 1) : TimeFields[j] = f][1]
        ELSE c[f]]

\* `if contest_id:` - a submitted, non-empty id selects the edit branch
Truthy(cid) == cid # None /\ cid # Some("")

\* the checks before the add/edit branch
validate(form) ==
    IF get(form, "name") = None THEN "abort400:name"
    ELSE IF checkbox_result_to_bool(get(form, "is_public")) = None
         THEN "abort400:is_public"
         ELSE "ok"

\* faulty variant: the edit branch appends the resolved rosters to the old ones
edit_rosters_merge(c, form) ==
    [c EXCEPT !.users = @ \o users_from_emails(split(form.users)),
              !.problems = @ \o problems_from_slugs(split(form.problems))]

\* the two roster assignments of the edit branch
edit_rosters(c, form) ==
    [c EXCEPT !.users = users_from_emails(split(form.users)),
              !.problems = problems_from_slugs(split(form.problems))]

\* the edit branch up to the commit: the outcome ("commit" when the commit
\* is reached) and the session with the contest as modified so far.  A
\* flush before the commit is not modelled apart: a constraint it would
\* trip is reported by the commit.
edit_pending(tbl, form, pub) ==
    LET rows == query_by_id(tbl, form.contest_id)
    IN IF rows = {}
       THEN [out |-> "NoResultFound", session |-> EmptySession]
       ELSE
         LET i == CHOOSE x \in rows : TRUE
             ts == Timestamps(form)
             k == FirstBad(ts)
             c1 == [tbl[i] EXCEPT !.name = form.name, !.is_public = pub]
             c2 == AssignTimes(c1, ts, k)
             dirty(c) == [EmptySession EXCEPT !.dirty = [x \in {i} |-> c]]
         IN IF k <= 5
            THEN [out |-> "ValueError", session |-> dirty(c2)]
            ELSE IF get(form, "users") = None
            THEN [out |-> "AttributeError", session |-> dirty(c2)]
            ELSE IF get(form, "problems") = None
            THEN [out |-> "AttributeError",
                  session |-> dirty([c2 EXCEPT !.users =
                                  users_from_emails(split(form.users))])]
            ELSE [out |-> "commit", session |-> dirty(edit_rosters(c2, form))]

\* the add branch up to the commit
create_pending(tbl, form, pub) ==
    LET ts == Timestamps(form)
    IN IF is_dup_contest_name(tbl, form.name)
       THEN [out |-> "abort400:dup", session |-> EmptySession]
       ELSE IF FirstBad(ts) <= 5
       THEN [out |-> "ValueError", session |-> EmptySession]
       ELSE IF get(form, "users") = None \/ get(form, "problems") = None
       THEN [out |-> "AttributeError", session |-> EmptySession]
       ELSE [out |-> "commit",
             session |-> [EmptySession EXCEPT !.new =
                <<[name |-> form.name, is_public |-> pub,
                   activate_time |-> ts[1][1], start_time |-> ts[2][1],
                   freeze_time |-> ts[3][1], end_time |-> ts[4][1],
                   deactivate_time |-> ts[5][1],
                   users |-> users_from_emails(split(form.users)),
                   problems |-> problems_from_slugs(split(form.problems))]>>]]

\* add_contest up to the commit
add_contest_pending(tbl, form) ==
    LET v == validate(form)
        pub == checkbox_result_to_bool(get(form, "is_public"))
    IN IF v # "ok" THEN [out |-> v, session |-> EmptySession]
       ELSE IF Truthy(get(form, "contest_id"))
            THEN edit_pending(tbl, form, pub[1])
            ELSE create_pending(tbl, form, pub[1])

\* the commit that ends add_contest; IntegrityError is not caught there
add_contest_commit(tbl, nid, s) ==
    LET c == commit(tbl, nid, s, {})
    IN IF c.ok
       THEN [db |-> c.db, nextId |-> c.nextId, session |-> EmptySession,
             out |-> "redirect"]
       ELSE [db |-> tbl, nextId |-> nid, session |-> s,
             out |-> "IntegrityError"]

\* faulty variant: the session commits as soon as the contest's fields are assigned
add_contest_eager(tbl, nid, form) ==
    LET p == add_contest_pending(tbl, form)
    IN IF p.session # EmptySession
       THEN [add_contest_commit(tbl, nid, p.session) EXCEPT
                !.out = IF p.out = "commit" THEN @ ELSE p.out]
       ELSE [db |-> tbl, nextId |-> nid, session |-> p.session, out |-> p.out]

\* add_contest
add_contest(tbl, nid, form) ==
    LET p == add_contest_pending(tbl, form)
    IN IF p.out = "commit"
       THEN add_contest_commit(tbl, nid, p.session)
       ELSE [db |-> tbl, nextId |-> nid, session |-> p.session, out |-> p.out]

\* ---------------------------------------------------------------- contests_del
\* faulty variant: the try block has no except clause
del_try_uncaught(tbl, nid, i, refs) ==
    LET c == commit(tbl, nid, [EmptySession EXCEPT !.deleted = {i}], refs)
    IN IF c.ok
       THEN [db |-> c.db, nextId |-> c.nextId, session |-> EmptySession,
             out |-> "redirect:deleted"]
       ELSE [db |-> tbl, nextId |-> nid,
             session |-> [EmptySession EXCEPT !.deleted = {i}],
             out |-> "IntegrityError"]

\* session.delete and commit; IntegrityError is caught, the session rolled
\* back and the failure flashed
del_try(tbl, nid, i, refs) ==
    LET c == commit(tbl, nid, [EmptySession EXCEPT !.deleted = {i}], refs)
    IN IF c.ok
       THEN [db |-> c.db, nextId |-> c.nextId, session |-> EmptySession,
             out |-> "redirect:deleted"]
       ELSE [db |-> tbl, nextId |-> nid, session |-> EmptySession,
             out |-> "redirect:integrity"]

\* contests_del: the not-found branch reads contest.name of None
contests_del(tbl, nid, cid, refs) ==
    LET rows == query_by_id(tbl, cid)
    IN IF rows = {}
       THEN [db |-> tbl, nextId |-> nid, session |-> EmptySession,
             out |-> "AttributeError"]
       ELSE del_try(tbl, nid, CHOOSE x \in rows : TRUE, refs)

\* ---------------------------------------------------------------- requests
Merge(a, b) ==
    [k \in DOMAIN a \cup DOMAIN b |-> IF k \in DOMAIN a THEN a[k] ELSE b[k]]
Without(r, key) == [k \in (DOMAIN r) \ {key} |-> r[k]]

BaseBody ==
    [is_public |-> "on",
     activate_date |-> "2024-03-01", activate_time |-> "09:00",
     start_date |-> "2024-03-01", start_time |-> "10:30",
     freeze_date |-> "2024-03-01", freeze_time |-> "12:00",
     end_date |-> "2024-03-01", end_time |-> "17:00",
     deactivate_date |-> "2024-03-01", deactivate_time |-> "18:15",
     users |-> <<"u", " ", "x">>,
     problems |-> <<"p">>]

AltBody ==
    Without([BaseBody EXCEPT
        !.activate_date = "2024-03-02", !.start_date = "2024-03-02",
        !.freeze_date = "2024-03-02", !.end_date = "2024-03-02",
        !.deactivate_date = "2024-03-02",
        !.users = <<>>,
        !.problems = <<"q", " ", " ", "p">>], "is_public")

Bodies ==
    {BaseBody, AltBody,
     [BaseBody EXCEPT !.is_public = "junk"],
     [BaseBody EXCEPT !.freeze_time = "25:99"],
     Without(BaseBody, "users"),
     Without(BaseBody, "problems")}

NameFields == {EmptyTable} \cup {[name |-> n] : n \in {"", "a", "b"}}
IdFields == {EmptyTable} \cup {[contest_id |-> c] : c \in {""} \cup IdStrs}

Forms == {Merge(n, Merge(c, b)) : n \in NameFields, c \in IdFields, b \in Bodies}

IsCreate(form) == ~Truthy(get(form, "contest_id"))

\* ---------------------------------------------------------------- sequential requests
Workers == {"w1", "w2"}

InitBase ==
    /\ db = EmptyTable
    /\ nextId = 1
    /\ session = EmptySession
    /\ req = [op |-> "none"]
    /\ res = "none"
    /\ wpc = [w \in Workers |-> "idle"]
    /\ wreq = [w \in Workers |-> EmptyTable]
    /\ wsess = [w \in Workers |-> EmptySession]
    /\ wout = [w \in Workers |-> "none"]
    /\ rout = [fn |-> "none"]

Init == InitBase /\ rin = <<>>

\* POST to /add/: contests_add runs add_contest, then the request ends
AddContest(form) ==
    /\ IsCreate(form) => nextId <= MaxCreates
    /\ \E r \in {add_contest(db, nextId, form)} :
          /\ db' = r.db
          /\ nextId' = r.nextId
          /\ session' = shutdown_session(r.session)
          /\ res' = r.out
    /\ req' = [op |-> "add_contest", form |-> form]
    /\ UNCHANGED <<wpc, wreq, wsess, wout, rin, rout>>

\* GET /del/<contest_id>/: contests_del, then the request ends
ContestsDel(cid, referenced) ==
    /\ \E r \in {contests_del(db, nextId, cid,
                              IF referenced THEN {IdOf(cid)} ELSE {})} :
          /\ db' = r.db
          /\ nextId' = r.nextId
          /\ session' = shutdown_session(r.session)
          /\ res' = r.out
    /\ req' = [op |-> "contests_del", contest_id |-> cid,
               referenced |-> referenced]
    /\ UNCHANGED <<wpc, wreq, wsess, wout, rin, rout>>

Next ==
    \/ \E form \in Forms : AddContest(form)
    \/ \E cid \in IdStrs, referenced \in BOOLEAN : ContestsDel(cid, referenced)

Spec == Init /\ [][Next]_vars

\* ---------------------------------------------------------------- concurrent requests
\* Two request workers, each with its own session, run add_contest against
\* the same table; the table is read when the handler queries it and written
\* when the handler commits.
ConcForms ==
    {Merge([name |-> n], b) : n \in {"a", "b"}, b \in {BaseBody, AltBody}}

\* add_contest from its first line to the line before the commit
Begin(w, form) ==
    /\ wpc[w] = "idle"
    /\ nextId <= MaxCreates
    /\ \E p \in {add_contest_pending(db, form)} :
          /\ wpc' = [wpc EXCEPT ![w] = IF p.out = "commit" THEN "commit"
                                       ELSE "done"]
          /\ wout' = [wout EXCEPT ![w] = IF p.out = "commit" THEN "none"
                                         ELSE p.out]
          /\ wsess' = [wsess EXCEPT ![w] = p.session]
    /\ wreq' = [wreq EXCEPT ![w] = form]
    /\ UNCHANGED <<db, nextId, session, req, res, rin, rout>>

\* the commit that ends add_contest
CommitStep(w) ==
    /\ wpc[w] = "commit"
    /\ nextId <= MaxCreates
    /\ \E r \in {add_contest_commit(db, nextId, wsess[w])} :
          /\ db' = r.db
          /\ nextId' = r.nextId
          /\ wsess' = [wsess EXCEPT ![w] = r.session]
          /\ wout' = [wout EXCEPT ![w] = r.out]
    /\ wpc' = [wpc EXCEPT ![w] = "done"]
    /\ UNCHANGED <<session, req, res, wreq, rin, rout>>

\* the worker's request ends and it takes the next one
End(w) ==
    /\ wpc[w] = "done"
    /\ wpc' = [wpc EXCEPT ![w] = "idle"]
    /\ wsess' = [wsess EXCEPT ![w] = shutdown_session(wsess[w])]
    /\ wout' = [wout EXCEPT ![w] = "none"]
    /\ wreq' = [wreq EXCEPT ![w] = EmptyTable]
    /\ UNCHANGED <<db, nextId, session, req, res, rin, rout>>

NextConc ==
    \/ \E w \in Workers, form \in ConcForms : Begin(w, form)
    \/ \E w \in Workers : CommitStep(w)
    \/ \E w \in Workers : End(w)

SpecConc == Init /\ [][NextConc]_vars

\* ---------------------------------------------------------------- roster resolution alone
RosterTokens == {"u", "v", "x", "p", "q"}

RECURSIVE SeqsUpTo(_, _)
SeqsUpTo(S, n) ==
    IF n = 0 THEN {<<>>}
    ELSE LET shorter == SeqsUpTo(S, n - 1)
         IN shorter \cup {Append(s, e) : s \in shorter, e \in S}

RosterInputs == SeqsUpTo(RosterTokens, MaxRosterLen)

InitRoster == InitBase /\ rin \in RosterInputs

ResolveUsers ==
    /\ rout' = [fn |-> "users_from_emails", val |-> users_from_emails(rin)]
    /\ UNCHANGED <<db, nextId, session, req, res, wpc, wreq, wsess, wout, rin>>

ResolveProblems ==
    /\ rout' = [fn |-> "problems_from_slugs", val |-> problems_from_slugs(rin)]
    /\ UNCHANGED <<db, nextId, session, req, res, wpc, wreq, wsess, wout, rin>>

NextRoster == ResolveUsers \/ ResolveProblems

SpecRoster == InitRoster /\ [][NextRoster]_vars

\* ---------------------------------------------------------------- properties
\* what the transition's request was
IsAdd(r) == r.op = "add_contest"
IsCreateReq(r) == IsAdd(r) /\ IsCreate(r.form)
IsUpdateReq(r) == IsAdd(r) /\ ~IsCreate(r.form)
IsDelReq(r) == r.op = "contests_del"

\* outcomes that are an exception no handler catches
RawFaults == {"NoResultFound", "AttributeError", "ValueError", "IntegrityError"}
\* outcomes in which the operation was carried out
Successes == {"redirect", "redirect:deleted"}

C2_Original ==
    [][(/\ IsCreateReq(req')
        /\ get(req'.form, "name") # None
        /\ req'.form.name \in NamesOf(db))
       => (res' = "abort400:dup" /\ db' = db)]_vars

\* C2 amended: every Create whose name is already stored leaves the set of
\* rows as it was and fails with the duplicate-name error, or with the
\* is_public validation error when its is_public value is not recognized.
C2_DuplicateCreateRejected ==
    [][(/\ IsCreateReq(req')
        /\ get(req'.form, "name") # None
        /\ req'.form.name \in NamesOf(db))
       => (/\ db' = db
           /\ res' = IF checkbox_result_to_bool(get(req'.form, "is_public")) = None
                     THEN "abort400:is_public"
                     ELSE "abort400:dup")]_vars

\* a Create with a stored name was rejected as a duplicate
C2_Witness ==
    /\ IsCreateReq(req)
    /\ get(req.form, "name") # None
    /\ req.form.name \in NamesOf(db)
    /\ res = "abort400:dup"

\* C3: Delete of an id that is not in the store ends in a reported
\* not-found outcome (a redirect), not in a fault, and leaves the store
\* unchanged.
C3_DeleteMissingReported ==
    [][(IsDelReq(req') /\ IdOf(req'.contest_id) \notin DOMAIN db)
       => (res' \notin RawFaults /\ res' \notin Successes /\ db' = db)]_vars

\* C4: every Update whose id matches no stored contest fails with a typed
\* not-found error, not a raw storage-layer fault, and leaves the store
\* unchanged.
C4_UpdateMissingTyped ==
    [][(IsUpdateReq(req') /\ IdOf(req'.form.contest_id) \notin DOMAIN db)
       => (res' \notin RawFaults /\ res' \notin Successes /\ db' = db)]_vars

\* C5: Create fails with a validation error and persists nothing whenever
\* the name is absent or empty or is_public is not a recognized boolean
\* encoding.
C5_CreateValidated ==
    [][(/\ IsCreateReq(req')
        /\ \/ get(req'.form, "name") = None
           \/ get(req'.form, "name") = Some("")
           \/ checkbox_result_to_bool(get(req'.form, "is_public")) = None)
       => (res' \in {"abort400:name", "abort400:is_public"} /\ db' = db)]_vars

\* C6: Delete of a stored contest that is referenced elsewhere is rejected
\* with the referential-integrity message and leaves every row intact;
\* Delete of a stored unreferenced contest succeeds, after which a lookup by
\* that id finds nothing and every other contest is as before.
C6_Delete ==
    [][(IsDelReq(req') /\ IdOf(req'.contest_id) \in DOMAIN db)
       => IF req'.referenced
          THEN res' = "redirect:integrity" /\ db' = db
          ELSE /\ res' = "redirect:deleted"
               /\ {i \in DOMAIN db' : i = IdOf(req'.contest_id)} = {}
               /\ DOMAIN db' = (DOMAIN db) \ {IdOf(req'.contest_id)}
               /\ \A j \in DOMAIN db' : db'[j] = db[j]]_vars

\* a Delete of a stored, referenced contest was rejected and the contest
\* is still stored next to another one
C6_Witness ==
    /\ IsDelReq(req)
    /\ req.referenced
    /\ IdOf(req.contest_id) \in DOMAIN db
    /\ Cardinality(DOMAIN db) = 2
    /\ res = "redirect:integrity"

\* a worker whose insert was rejected at the commit
LostRace(w) == wpc[w] = "done" /\ wsess[w].new # <<>>

\* C7: when two Creates of the same fresh name both pass the name check
\* before either commits, the store never holds two contests of that name
\* and the losing call ends as the duplicate-name error does, not in an
\* unhandled storage exception.
C7_RaceHandled ==
    /\ \A i, j \in DOMAIN db : i # j => db[i].name # db[j].name
    /\ \A w \in Workers : LostRace(w) => wout[w] = "abort400:dup"

\* the row an Update's form describes
RowOf(form) ==
    [name |-> form.name,
     is_public |-> (get(form, "is_public") = Some("on")),
     activate_time |-> DayNo[form.activate_date] * 1440 + MinuteNo[form.activate_time],
     start_time |-> DayNo[form.start_date] * 1440 + MinuteNo[form.start_time],
     freeze_time |-> DayNo[form.freeze_date] * 1440 + MinuteNo[form.freeze_time],
     end_time |-> DayNo[form.end_date] * 1440 + MinuteNo[form.end_time],
     deactivate_time |-> DayNo[form.deactivate_date] * 1440
                         + MinuteNo[form.deactivate_time],
     users |-> SelectSeq(split(form.users), LAMBDA e : e \in UserTable),
     problems |-> SelectSeq(split(form.problems), LAMBDA e : e \in ProblemTable)]

\* C8: a successful Update replaces the contest's name, is_public, five
\* timestamps and both rosters with the values resolved from the form; no
\* member of the old rosters stays unless resubmitted; the id is unchanged
\* and no other row is modified.
C8_UpdateReplaces ==
    [][(IsUpdateReq(req') /\ res' = "redirect")
       => LET i == IdOf(req'.form.contest_id)
          IN /\ i \in DOMAIN db
             /\ DOMAIN db' = DOMAIN db
             /\ db'[i] = RowOf(req'.form)
             /\ Elems(db'[i].users) \subseteq Elems(split(req'.form.users))
             /\ Elems(db'[i].problems) \subseteq Elems(split(req'.form.problems))
             /\ \A j \in (DOMAIN db) \ {i} : db'[j] = db[j]]_vars

\* an Update with empty user list succeeded on one of two stored contests
C8_Witness ==
    /\ IsUpdateReq(req)
    /\ res = "redirect"
    /\ Cardinality(DOMAIN db) = 2
    /\ req.form.users = <<>>
    /\ db[IdOf(req.form.contest_id)].users = <<>>
    /\ db[IdOf(req.form.contest_id)].problems = <<"q", "p">>

\* the rows a roster helper looks its identifiers up in
TableOf(fn) == IF fn = "users_from_emails" THEN UserTable ELSE ProblemTable

\* s and t hold the same identifiers the same number of times
SameBag(s, t) ==
    /\ Len(s) = Len(t)
    /\ \A e \in RosterTokens :
          Cardinality({i \in 1..Len(s) : s[i] = e})
          = Cardinality({i \in 1..Len(t) : t[i] = e})

Resolve(fn, ids) ==
    IF fn = "users_from_emails" THEN users_from_emails(ids)
    ELSE problems_from_slugs(ids)

\* C9 as stated: the helpers return exactly the set of existing entities
\* named in the input: unknown identifiers dropped, the result independent
\* of the input's order, a repeated identifier contributing once, the empty
\* input giving the empty result.
C9_Original ==
    rout.fn # "none" =>
       /\ Elems(rout.val) = Elems(rin) \cap TableOf(rout.fn)
       /\ Len(rout.val) = Cardinality(Elems(rin) \cap TableOf(rout.fn))
       /\ \A t \in RosterInputs :
             SameBag(rin, t) => Resolve(rout.fn, t) = rout.val
       /\ (rin = <<>> => rout.val = <<>>)

\* C9 amended: the helpers return a list whose elements are exactly the
\* existing entities named in the input, unknown identifiers dropped and the
\* empty input giving the empty list; the list has one entry for every
\* occurrence of a known identifier, in the input's order.
C9_RosterList ==
    rout.fn # "none" =>
       /\ Elems(rout.val) = Elems(rin) \cap TableOf(rout.fn)
       /\ Len(rout.val)
          = Cardinality({i \in 1..Len(rin) : rin[i] \in TableOf(rout.fn)})
       /\ \A i, j \in 1..Len(rout.val) :
             i < j => \E a, b \in 1..Len(rin) :
                         a < b /\ rin[a] = rout.val[i] /\ rin[b] = rout.val[j]
       /\ (rin = <<>> => rout.val = <<>>)

\* the users were resolved from a list with an unknown email and a
\* repeated known one
C9_Witness ==
    /\ rout.fn = "users_from_emails"
    /\ rin = <<"u", "x", "u">>
    /\ rout.val = <<"u", "u">>

\* C10: a Create, Update or Delete that ends in an error leaves the store
\* as it was before the call and leaves no pending change behind that a
\* later commit could make durable.
C10_NoPartialMutation ==
    [][(req'.op # "none" /\ res' \notin Successes)
       => (db' = db /\ session' = EmptySession)]_vars

\* an Update of a stored contest failed while resolving its rosters, after
\* the new name was assigned, and the store still has the old name
C10_Witness ==
    /\ IsUpdateReq(req)
    /\ res = "AttributeError"
    /\ IdOf(req.form.contest_id) \in DOMAIN db
    /\ get(req.form, "name") # None
    /\ db[IdOf(req.form.contest_id)].name # req.form.name
    /\ session = EmptySession

====
